---------------------------- MODULE Spec2Model ----------------------------
(***************************************************************************)
(* backuph: dir_tree.py (DirTree / _DirNode) as a state machine.            *)
(*                                                                         *)
(* Strings are sequences of one-character strings, so that os.path.join,   *)
(* basename, dirname, rstrip and startswith are computed as Python computes *)
(* them.  The filesystem maps resolved paths (sequences of components,     *)
(* relative to the working directory) to directories and regular files.    *)
(*                                                                         *)
(* A behaviour constructs the DirTree and then makes one call on it,       *)
(* draw_tree or archive_tree: draw_tree only reads the tree and            *)
(* archive_tree reads nothing that draw_tree writes.  Each recursive call  *)
(* of draw_subtree and of archive_subtree is one step; the pending calls   *)
(* are kept on a stack in the order the recursion makes them.  os.mkdir    *)
(* and tar are the environment: they fail where the filesystem makes them  *)
(* fail, and may be made to fail MaxFaults times besides.                  *)
(***************************************************************************)
EXTENDS Naturals, Sequences, FiniteSets, TLC

VARIABLES
    fs,       \* the filesystem: [dirs, files], sets of resolved paths
    listing,  \* the order in which os.listdir yields names
    ctor,     \* the arguments of DirTree(path, take_hidden)
    tree,     \* the _DirNode objects built, as a set of records
    pc,       \* where the program is
    err,      \* the exception that ended the current call, or NoError
    call,     \* the arguments of the draw_tree / archive_tree call in progress
    dstack,   \* pending draw_subtree calls, next first
    out,      \* the lines printed by draw_tree
    astack,   \* pending archive_subtree calls, next first
    log,      \* the os.mkdir and tar invocations made, in order
    progress, \* what archive_subtree has printed: "Archiving files in ..." and "done"
    faults    \* failures the environment has injected so far

vars == <<fs, listing, ctor, tree, pc, err, call, dstack, out, astack, log, progress, faults>>

---------------------------------------------------------------------------
(* Bounds of the model *)

\* most entries below the root directory in the source tree
MaxEntries == 4
\* most injected failures of the environment (mkdir refused, tar failing) per run
MaxFaults == 1

---------------------------------------------------------------------------
(* Characters and the strings of the model *)

SLASH == "/"
DOT == "."
EMPTY == <<>>

s_a == <<"a">>
s_f == <<"f">>
s_g == <<"g">>
s_h == <<".", "h">>
s_t == <<"a", ".", "t", "a", "r">>
s_s == <<"s">>
s_d == <<"d">>

\* the names directory entries may bear, in the two orders a listing may have
Names == {s_a, s_f, s_g, s_h, s_t}
ListOrders == { <<s_f, s_h, s_t, s_a, s_g>>, <<s_g, s_a, s_t, s_h, s_f>> }

---------------------------------------------------------------------------
(* Python string and os.path functions *)

startswith(s, c) == Len(s) > 0 /\ s[1] = c

endswith(s, c) == Len(s) > 0 /\ s[Len(s)] = c

RECURSIVE rstrip(_, _)
rstrip(s, c) == IF endswith(s, c) THEN rstrip(SubSeq(s, 1, Len(s) - 1), c) ELSE s

\* index of the last "/" of p, 0 when there is none (p.rfind("/") + 1)
LastSlash(p) ==
    LET idx == {i \in 1..Len(p) : p[i] = SLASH}
    IN IF idx = {} THEN 0 ELSE CHOOSE i \in idx : \A j \in idx : j <= i

basename(p) == SubSeq(p, LastSlash(p) + 1, Len(p))

dirname(p) ==
    LET head == SubSeq(p, 1, LastSlash(p))
    IN IF head # EMPTY /\ (\E i \in 1..Len(head) : head[i] # SLASH)
       THEN rstrip(head, SLASH)
       ELSE head

ospjoin(a, b) ==
    IF startswith(b, SLASH) THEN b
    ELSE IF a = EMPTY \/ endswith(a, SLASH) THEN a \o b
    ELSE a \o <<SLASH>> \o b

ospjoin3(a, b, c) == ospjoin(ospjoin(a, b), c)

\* "{0}".format(n) for a natural number
RECURSIVE format(_)
format(n) ==
    LET digit == <<"0", "1", "2", "3", "4", "5", "6", "7", "8", "9">>
    IN IF n < 10 THEN <<digit[n + 1]>> ELSE format(n \div 10) \o <<digit[(n % 10) + 1]>>

RECURSIVE spaces(_)
spaces(n) == IF n = 0 THEN EMPTY ELSE <<" ">> \o spaces(n - 1)

---------------------------------------------------------------------------
(* The filesystem: path resolution, stat, listdir *)

\* the components of p: the pieces between the slashes
RECURSIVE Split(_)
Split(p) ==
    LET idx == {i \in 1..Len(p) : p[i] = SLASH}
    IN IF idx = {} THEN <<p>>
       ELSE LET i == CHOOSE k \in idx : \A j \in idx : k <= j
            IN <<SubSeq(p, 1, i - 1)>> \o Split(SubSeq(p, i + 1, Len(p)))

RECURSIVE DropEmpty(_)
DropEmpty(cs) ==
    IF cs = <<>> THEN <<>>
    ELSE IF Head(cs) = EMPTY \/ Head(cs) = <<DOT>> THEN DropEmpty(Tail(cs))
    ELSE <<Head(cs)>> \o DropEmpty(Tail(cs))

\* the entry a relative path names: its components from the working directory
Resolve(p) == DropEmpty(Split(p))

Parent(cs) == SubSeq(cs, 1, Len(cs) - 1)

IsDir(F, cs) == cs = <<>> \/ cs \in F.dirs

IsFile(F, cs) == cs \in F.files

\* os.path.isdir: the empty path names nothing
isdir(F, p) == p # EMPTY /\ IsDir(F, Resolve(p))

\* os.path.exists: a path with a trailing slash exists only as a directory
exists(F, p) ==
    /\ p # EMPTY
    /\ \/ IsDir(F, Resolve(p))
       \/ IsFile(F, Resolve(p)) /\ ~endswith(p, SLASH)

RECURSIVE Filter(_, _)
Filter(s, keep) ==
    IF s = <<>> THEN <<>>
    ELSE IF Head(s) \in keep THEN <<Head(s)>> \o Filter(Tail(s), keep)
    ELSE Filter(Tail(s), keep)

\* os.listdir of a directory: its entries' names, in the listing's order
listdir(F, order, p) ==
    Filter(order, {n \in Names : Append(Resolve(p), n) \in F.dirs \cup F.files})

---------------------------------------------------------------------------
(* _DirNode and the tree build *)

None == EMPTY

NoError == [type |-> "none"]

\* _DirNode.__init__
DirNode(path, parent) ==
    [path |-> path, parent |-> parent, name |-> basename(rstrip(path, SLASH)),
     children |-> <<>>, files |-> <<>>]

\* the loop of _DirNode._get_items over the listing
RECURSIVE get_items(_, _, _, _)
get_items(F, path, items, take_hidden) ==
    IF items = <<>> THEN [children |-> <<>>, files |-> <<>>]
    ELSE LET item == Head(items)
             rest == get_items(F, path, Tail(items), take_hidden)
         IN IF startswith(item, DOT) /\ ~take_hidden THEN rest
            ELSE IF isdir(F, ospjoin(path, item))
                 THEN [rest EXCEPT !.children = <<ospjoin(path, item)>> \o @]
                 ELSE [rest EXCEPT !.files = <<item>> \o @]

\* _DirNode.build_subtree: the nodes of the subtree of `path`.  The recursive
\* call passes no argument, so the children are built with take_hidden=False.
RECURSIVE build_subtree(_, _, _, _, _)
build_subtree(F, order, path, parent, take_hidden) ==
    LET items == get_items(F, path, listdir(F, order, path), take_hidden)
        self == [DirNode(path, parent) EXCEPT !.children = items.children,
                                              !.files = items.files]
    IN {self} \cup UNION { build_subtree(F, order, items.children[i], path, FALSE)
                            : i \in DOMAIN items.children }

Node(p) == CHOOSE n \in tree : n.path = p

Root == CHOOSE n \in tree : n.parent = None

---------------------------------------------------------------------------
(* Rendering: _draw_node, _draw_files, draw_subtree *)

PREFIX_SUFFIX_LENGTH == 3

\* _draw_node with the test of line 133 written "elif not self.files:"
draw_node_ignoring_counts(node, indent, counts) ==
    LET suffix ==
            IF node.children # <<>> THEN <<" ", "+">>
            ELSE IF node.files = <<>> THEN <<" ", "o">>
            ELSE <<" ", ":">> \o (IF counts THEN <<" ">> \o format(Len(node.files))
                                  ELSE EMPTY)
    IN spaces(indent) \o <<"|", " ">> \o node.name \o suffix

\* _DirNode._draw_node: the line printed for a directory
draw_node(node, indent, counts) ==
    LET suffix ==
            IF node.children # <<>> THEN <<" ", "+">>
            ELSE IF node.files = <<>> /\ ~counts THEN <<" ", "o">>
            ELSE <<" ", ":">> \o (IF counts THEN <<" ">> \o format(Len(node.files))
                                  ELSE EMPTY)
    IN spaces(indent) \o <<"|", " ">> \o node.name \o suffix

\* _DirNode._draw_files: the lines printed for the files of a directory
draw_files(node, indent) ==
    [i \in DOMAIN node.files |->
        [kind |-> "file", node |-> node.path, indent |-> indent,
         text |-> spaces(indent) \o <<"*", " ">> \o node.files[i]]]

\* the draw_subtree calls a node makes for its children, in order
draw_children(node, indent) ==
    [i \in DOMAIN node.children |->
        [node |-> node.children[i],
         indent |-> indent + Len(node.name) + PREFIX_SUFFIX_LENGTH]]

---------------------------------------------------------------------------
(* Archiving: the compression tables, the tar command line, the environment *)

COMPRESSION_TYPE ==
    [gzip |-> <<"-", "z">>, bzip |-> <<"-", "j">>, xz |-> <<"-", "J">>]

COMPRESSION_EXT ==
    [gzip |-> <<".", "g", "z">>, bzip |-> <<".", "b", "z">>,
     xz |-> <<".", "x", "z">>, none |-> EMPTY]

DOT_TAR == <<".", "t", "a", "r">>

OPT_v == <<"-", "v">>
OPT_c == <<"-", "c">>
OPT_C == <<"-", "C">>
OPT_f == <<"-", "f">>

\* the compression names a caller may pass: the four of the tables and two others
Compressions == {"gzip", "bzip", "xz", "none", "zip", ""}

\* the head of args in archive_subtree: [-v] [compression flag]
args_head(compression, verbose) ==
    (IF verbose THEN <<OPT_v>> ELSE <<>>)
    \o (IF compression # "none" THEN <<COMPRESSION_TYPE[compression]>> ELSE <<>>)

\* leaf_args with "-C" given the directory itself instead of its parent
leaf_args_in_self(node, dest, compression, verbose) ==
    args_head(compression, verbose)
    \o <<OPT_c, OPT_C, node.path, OPT_f,
         ospjoin(dest, node.name \o DOT_TAR \o COMPRESSION_EXT[compression]),
         node.name>>

\* the arguments tar gets for a directory without child directories
leaf_args(node, dest, compression, verbose) ==
    args_head(compression, verbose)
    \o <<OPT_c, OPT_C, dirname(rstrip(node.path, SLASH)), OPT_f,
         ospjoin(dest, node.name \o DOT_TAR \o COMPRESSION_EXT[compression]),
         node.name>>

\* files_args with the archive written beside the destination directory
\* instead of inside it
files_args_beside(node, dest, compression, verbose) ==
    args_head(compression, verbose)
    \o <<OPT_c, OPT_C, node.path, OPT_f,
         ospjoin(dest, node.name \o DOT_TAR \o COMPRESSION_EXT[compression])>>
    \o node.files

\* the arguments tar gets for the files of a directory with child directories
files_args(node, dest, compression, verbose) ==
    args_head(compression, verbose)
    \o <<OPT_c, OPT_C, node.path, OPT_f,
         ospjoin3(dest, node.name, node.name \o DOT_TAR \o COMPRESSION_EXT[compression])>>
    \o node.files

\* the local retcode of archive_subtree after _call_tar has returned: it is
\* set to 0 on entry and _call_tar's result (the status) is not assigned to it
retcode(status) == 0

\* the archive_subtree calls a node makes for its children, in order
archive_children(node, dest) ==
    [i \in DOMAIN node.children |->
        [node |-> node.children[i], dest |-> ospjoin(dest, node.name)]]

\* tar's reading of its command line
ArgAfter(args, opt) ==
    LET i == CHOOSE k \in 1..Len(args) : args[k] = opt IN args[i + 1]

TarOut(args) == ArgAfter(args, OPT_f)

TarCwd(args) == ArgAfter(args, OPT_C)

TarMembers(args) ==
    LET i == CHOOSE k \in 1..Len(args) : args[k] = OPT_f
    IN SubSeq(args, i + 2, Len(args))

\* whether a regular file can be created or rewritten at path p
CanCreate(F, p) ==
    /\ Resolve(p) # <<>>
    /\ IsDir(F, Parent(Resolve(p)))
    /\ ~IsDir(F, Resolve(p))

\* what a tar run can end with: the status, whether the output file is left
\* behind, and whether the failure is one the environment injects
TarOutcomes(F, args, nfaults) ==
    IF ~CanCreate(F, TarOut(args))
    THEN {[status |-> 2, created |-> FALSE, fault |-> 0]}
    ELSE IF ~( /\ isdir(F, TarCwd(args))
               /\ \A i \in DOMAIN TarMembers(args) :
                     exists(F, ospjoin(TarCwd(args), TarMembers(args)[i])) )
    THEN {[status |-> 2, created |-> c, fault |-> 0] : c \in BOOLEAN}
    ELSE {[status |-> 0, created |-> TRUE, fault |-> 0]}
         \cup (IF nfaults < MaxFaults
               THEN {[status |-> 2, created |-> c, fault |-> 1] : c \in BOOLEAN}
               ELSE {})

\* what os.mkdir(p) can end with
MkdirOutcomes(F, p, nfaults) ==
    IF Resolve(p) = <<>> \/ IsDir(F, Resolve(p)) \/ IsFile(F, Resolve(p))
    THEN {[errno |-> "EEXIST", fault |-> 0]}
    ELSE IF IsFile(F, Parent(Resolve(p)))
    THEN {[errno |-> "ENOTDIR", fault |-> 0]}
    ELSE IF ~IsDir(F, Parent(Resolve(p)))
    THEN {[errno |-> "ENOENT", fault |-> 0]}
    ELSE {[errno |-> "OK", fault |-> 0]}
         \cup (IF nfaults < MaxFaults THEN {[errno |-> "EACCES", fault |-> 1]} ELSE {})

WithDir(F, p) == [F EXCEPT !.dirs = @ \cup {Resolve(p)}]

WithFile(F, p) == [F EXCEPT !.files = @ \cup {Resolve(p)}]

---------------------------------------------------------------------------
(* The initial filesystem and the arguments of the run *)

\* the paths DirTree may be given: no directory part, and nested with a trailing slash
RootPaths == { s_a, s_s \o <<SLASH>> \o s_a \o <<SLASH>> }

\* the destination archive_tree is given
DestArg == s_d

\* the entries the source directory may hold, relative to it
CandDirs == { <<s_a>>, <<s_t>>, <<s_a, s_a>>, <<s_a, s_h>>, <<s_t, s_a>> }
CandFiles == { <<s_f>>, <<s_g>>, <<s_h>>, <<s_a, s_f>>, <<s_t, s_f>> }

RECURSIVE Prefixes(_)
Prefixes(cs) == IF cs = <<>> THEN {} ELSE {cs} \cup Prefixes(Parent(cs))

\* the source side: the root directory (and the directories above it) and the
\* chosen entries below it
SourceFS(rp, sel) ==
    [dirs  |-> Prefixes(Resolve(rp)) \cup {Resolve(rp) \o c : c \in sel \cap CandDirs},
     files |-> {Resolve(rp) \o c : c \in sel \cap CandFiles}]

\* what the destination holds beforehand: nothing at all (the destination
\* directory is missing), an empty directory, or a directory holding an entry
\* that bears the source root's name
DestStates == {"absent", "empty", "file", "dir"}

DestFS(rp, pre) ==
    LET d == Resolve(DestArg)
        e == Append(d, basename(rstrip(rp, SLASH)))
    IN [dirs  |-> (IF pre = "absent" THEN {} ELSE {d})
                  \cup (IF pre = "dir" THEN {e} ELSE {}),
        files |-> IF pre = "file" THEN {e} ELSE {}]

Init ==
    /\ \E rp \in RootPaths, pre \in DestStates, sel \in SUBSET (CandDirs \cup CandFiles),
          present \in BOOLEAN, take_hidden \in BOOLEAN :
          /\ Cardinality(sel) <= MaxEntries
          /\ \A c \in sel : Len(c) > 1 => Parent(c) \in sel
          /\ ~present => sel = {}
          /\ fs = IF present
                  THEN [dirs  |-> SourceFS(rp, sel).dirs \cup DestFS(rp, pre).dirs,
                        files |-> SourceFS(rp, sel).files \cup DestFS(rp, pre).files]
                  ELSE DestFS(rp, pre)
          /\ ctor = [path |-> rp, take_hidden |-> take_hidden]
    /\ listing \in ListOrders
    /\ tree = {}
    /\ pc = "init"
    /\ err = NoError
    /\ call = [op |-> "none"]
    /\ dstack = <<>>
    /\ out = <<>>
    /\ astack = <<>>
    /\ log = <<>>
    /\ progress = <<>>
    /\ faults = 0

---------------------------------------------------------------------------
(* DirTree.__init__ *)

Build ==
    /\ pc = "init"
    /\ isdir(fs, ctor.path)
    /\ tree' = build_subtree(fs, listing, ctor.path, None, ctor.take_hidden)
    /\ pc' = "built"
    /\ UNCHANGED <<fs, listing, ctor, err, call, dstack, out, astack, log, progress, faults>>

\* os.listdir of the root raises OSError
BuildFails ==
    /\ pc = "init"
    /\ ~isdir(fs, ctor.path)
    /\ err' = [type |-> "OSError", path |-> ctor.path]
    /\ pc' = "raised"
    /\ UNCHANGED <<fs, listing, ctor, tree, call, dstack, out, astack, log, progress, faults>>

---------------------------------------------------------------------------
(* DirTree.draw_tree *)

DrawTree ==
    /\ pc = "built"
    /\ \E files \in BOOLEAN, counts \in BOOLEAN :
          call' = [op |-> "draw_tree", draw_files |-> files, counts |-> counts]
    /\ dstack' = <<[node |-> Root.path, indent |-> 0]>>
    /\ pc' = "drawing"
    /\ UNCHANGED <<fs, listing, ctor, tree, err, out, astack, log, progress, faults>>

\* one call of _DirNode.draw_subtree, up to its calls for the children
DrawSubtree ==
    /\ pc = "drawing"
    /\ dstack # <<>>
    /\ LET node == Node(Head(dstack).node)
           indent == Head(dstack).indent
           inner == indent + Len(node.name) + PREFIX_SUFFIX_LENGTH
       IN /\ out' = out
                    \o <<[kind |-> "dir", node |-> node.path, indent |-> indent,
                          text |-> draw_node(node, indent, call.counts)]>>
                    \o (IF call.draw_files THEN draw_files(node, inner) ELSE <<>>)
          /\ dstack' = draw_children(node, indent) \o Tail(dstack)
    /\ pc' = IF dstack' = <<>> THEN "drawn" ELSE "drawing"
    /\ UNCHANGED <<fs, listing, ctor, tree, err, call, astack, log, progress, faults>>

---------------------------------------------------------------------------
(* DirTree.archive_tree *)

ArchiveTree ==
    /\ pc = "built"
    /\ \E compression \in Compressions, verbose \in BOOLEAN :
          call' = [op |-> "archive_tree", dest |-> DestArg,
                   compression |-> compression, verbose |-> verbose]
    /\ astack' = <<[node |-> Root.path, dest |-> DestArg]>>
    /\ pc' = "archiving"
    /\ UNCHANGED <<fs, listing, ctor, tree, err, dstack, out, log, progress, faults>>

TarEntry(node, args, o) ==
    [op |-> "tar", node |-> node.path, args |-> args, status |-> o.status,
     stdout |-> IF call.verbose THEN "inherit" ELSE "devnull"]

MkdirEntry(node, p, o) ==
    [op |-> "mkdir", node |-> node.path, path |-> p, errno |-> o.errno]

\* the two lines archive_subtree prints for a directory
Archiving(path) == [text |-> "Archiving files in", node |-> path]

Done(path) == [text |-> "done", node |-> path]

\* archive_subtree with the compression looked up only where the output path
\* is built: a root with child directories gets its destination directory
\* before the KeyError
ArchiveKeyError_late ==
    /\ pc = "archiving"
    /\ astack # <<>>
    /\ call.compression # "none"
    /\ call.compression \notin DOMAIN COMPRESSION_TYPE
    /\ LET node == Node(Head(astack).node)
           p == ospjoin(Head(astack).dest, node.name)
       IN IF /\ node.children # <<>>
             /\ ~exists(fs, p)
             /\ [errno |-> "OK", fault |-> 0] \in MkdirOutcomes(fs, p, faults)
          THEN /\ fs' = WithDir(fs, p)
               /\ log' = Append(log, MkdirEntry(node, p, [errno |-> "OK"]))
          ELSE UNCHANGED <<fs, log>>
    /\ err' = [type |-> "KeyError", key |-> call.compression]
    /\ pc' = "raised"
    /\ astack' = <<>>
    /\ progress' = Append(progress, Archiving(Head(astack).node))
    /\ UNCHANGED <<listing, ctor, tree, call, dstack, out, faults>>

\* archive_subtree: COMPRESSION_TYPE[compression] raises KeyError
ArchiveKeyError ==
    /\ pc = "archiving"
    /\ astack # <<>>
    /\ call.compression # "none"
    /\ call.compression \notin DOMAIN COMPRESSION_TYPE
    /\ err' = [type |-> "KeyError", key |-> call.compression]
    /\ pc' = "raised"
    /\ astack' = <<>>
    /\ progress' = Append(progress, Archiving(Head(astack).node))
    /\ UNCHANGED <<fs, listing, ctor, tree, call, dstack, out, log, faults>>

\* the end of archive_subtree: "done" is printed, retcode is checked, and the
\* children follow
AfterCall(node, dest, rc) ==
    /\ progress' = progress \o <<Archiving(node.path), Done(node.path)>>
    /\ IF rc # 0
       THEN /\ err' = [type |-> "ArchivingProblemError", path |-> node.path,
                       status |-> rc]
            /\ pc' = "raised"
            /\ astack' = <<>>
       ELSE /\ err' = err
            /\ astack' = archive_children(node, dest) \o Tail(astack)
            /\ pc' = IF astack' = <<>> THEN "archived" ELSE "archiving"

\* archive_subtree of a directory without child directories
ArchiveLeaf ==
    /\ pc = "archiving"
    /\ astack # <<>>
    /\ call.compression = "none" \/ call.compression \in DOMAIN COMPRESSION_TYPE
    /\ LET node == Node(Head(astack).node)
           dest == Head(astack).dest
           args == leaf_args(node, dest, call.compression, call.verbose)
       IN /\ node.children = <<>>
          /\ \E o \in TarOutcomes(fs, args, faults) :
                /\ fs' = IF o.created THEN WithFile(fs, TarOut(args)) ELSE fs
                /\ faults' = faults + o.fault
                /\ log' = Append(log, TarEntry(node, args, o))
                /\ AfterCall(node, dest, retcode(o.status))
    /\ UNCHANGED <<listing, ctor, tree, call, dstack, out>>

\* archive_subtree with the OSError of os.mkdir caught and dropped: the
\* children follow
ArchiveMkdirFails_swallowed ==
    /\ pc = "archiving"
    /\ astack # <<>>
    /\ call.compression = "none" \/ call.compression \in DOMAIN COMPRESSION_TYPE
    /\ LET node == Node(Head(astack).node)
           dest == Head(astack).dest
           p == ospjoin(dest, node.name)
       IN /\ node.children # <<>>
          /\ ~exists(fs, p)
          /\ \E o \in MkdirOutcomes(fs, p, faults) :
                /\ o.errno # "OK"
                /\ faults' = faults + o.fault
                /\ log' = Append(log, MkdirEntry(node, p, o))
          /\ AfterCall(node, dest, 0)
    /\ UNCHANGED <<fs, listing, ctor, tree, call, dstack, out>>

\* archive_subtree of a directory with child directories: os.mkdir fails
ArchiveMkdirFails ==
    /\ pc = "archiving"
    /\ astack # <<>>
    /\ call.compression = "none" \/ call.compression \in DOMAIN COMPRESSION_TYPE
    /\ LET node == Node(Head(astack).node)
           dest == Head(astack).dest
           p == ospjoin(dest, node.name)
       IN /\ node.children # <<>>
          /\ ~exists(fs, p)
          /\ \E o \in MkdirOutcomes(fs, p, faults) :
                /\ o.errno # "OK"
                /\ faults' = faults + o.fault
                /\ log' = Append(log, MkdirEntry(node, p, o))
                /\ err' = [type |-> "ArchivingProblemError", path |-> p,
                           cause |-> o.errno]
    /\ pc' = "raised"
    /\ astack' = <<>>
    /\ progress' = Append(progress, Archiving(Head(astack).node))
    /\ UNCHANGED <<fs, listing, ctor, tree, call, dstack, out>>

\* archive_subtree of a directory with child directories and no files: the
\* destination directory is there or is made, and the children follow
ArchiveDirOnly ==
    /\ pc = "archiving"
    /\ astack # <<>>
    /\ call.compression = "none" \/ call.compression \in DOMAIN COMPRESSION_TYPE
    /\ LET node == Node(Head(astack).node)
           dest == Head(astack).dest
           p == ospjoin(dest, node.name)
       IN /\ node.children # <<>>
          /\ node.files = <<>>
          /\ IF exists(fs, p)
             THEN UNCHANGED <<fs, log, faults>>
             ELSE /\ [errno |-> "OK", fault |-> 0] \in MkdirOutcomes(fs, p, faults)
                  /\ fs' = WithDir(fs, p)
                  /\ log' = Append(log, MkdirEntry(node, p, [errno |-> "OK"]))
                  /\ faults' = faults
          /\ AfterCall(node, dest, 0)
    /\ UNCHANGED <<listing, ctor, tree, call, dstack, out>>

\* archive_subtree of a directory with child directories and files: the
\* destination directory is there or is made, tar archives the files, and the
\* children follow
ArchiveDirFiles ==
    /\ pc = "archiving"
    /\ astack # <<>>
    /\ call.compression = "none" \/ call.compression \in DOMAIN COMPRESSION_TYPE
    /\ LET node == Node(Head(astack).node)
           dest == Head(astack).dest
           p == ospjoin(dest, node.name)
           args == files_args(node, dest, call.compression, call.verbose)
           made == ~exists(fs, p)
           F == IF made THEN WithDir(fs, p) ELSE fs
           L == IF made THEN Append(log, MkdirEntry(node, p, [errno |-> "OK"])) ELSE log
       IN /\ node.children # <<>>
          /\ node.files # <<>>
          /\ made => [errno |-> "OK", fault |-> 0] \in MkdirOutcomes(fs, p, faults)
          /\ \E o \in TarOutcomes(F, args, faults) :
                /\ fs' = IF o.created THEN WithFile(F, TarOut(args)) ELSE F
                /\ faults' = faults + o.fault
                /\ log' = Append(L, TarEntry(node, args, o))
                /\ AfterCall(node, dest, retcode(o.status))
    /\ UNCHANGED <<listing, ctor, tree, call, dstack, out>>

Next ==
    \/ Build
    \/ BuildFails
    \/ DrawTree
    \/ DrawSubtree
    \/ ArchiveTree
    \/ ArchiveKeyError
    \/ ArchiveLeaf
    \/ ArchiveMkdirFails
    \/ ArchiveDirOnly
    \/ ArchiveDirFiles

Spec == Init /\ [][Next]_vars

---------------------------------------------------------------------------
(* Vocabulary of the properties *)

Range(seq) == {seq[i] : i \in DOMAIN seq}

IsLeaf(n) == n.children = <<>>

\* the tar invocations (places in the log) made for node n, and the mkdir calls
TarsOf(n) == {i \in DOMAIN log : log[i].op = "tar" /\ log[i].node = n.path}

Tars == {i \in DOMAIN log : log[i].op = "tar"}

Mkdirs == {i \in DOMAIN log : log[i].op = "mkdir"}

\* the <current destination> of node n, as a resolved path: the destination
\* given to archive_tree, then the names of n's ancestors from the root down
RECURSIVE DestOf(_)
DestOf(n) ==
    IF n.parent = None THEN Resolve(call.dest)
    ELSE Append(DestOf(Node(n.parent)), Node(n.parent).name)

\* <name>.tar<ext> for node n under the compression of the call
ArchiveName(n) == n.name \o DOT_TAR \o COMPRESSION_EXT[call.compression]

InArchiveTree == call.op = "archive_tree"

KnownCompression == {"gzip", "bzip", "xz", "none"}

\* archive_subtree has run for n and has printed "done"
Processed(n) == \E i \in DOMAIN progress : progress[i] = Done(n.path)

---------------------------------------------------------------------------
(* C1.  Whenever tar ends with a non-zero status, archive_tree raises an     *)
(* ArchivingProblemError naming the directory's path and that status, and   *)
(* nothing is archived afterwards: the failed invocation is the last entry  *)
(* of the log.                                                              *)
C1_TarFailureRaises ==
    \A i \in Tars :
        log[i].status # 0 =>
            /\ pc = "raised"
            /\ err = [type |-> "ArchivingProblemError", path |-> log[i].node,
                      status |-> log[i].status]
            /\ i = Len(log)

(* C2.  In every node of the built tree, at every depth, an entry of the     *)
(* directory whose name begins with "." is among the node's files or        *)
(* children exactly when the tree was built with take_hidden.               *)
C2_HiddenUniform ==
    pc = "built" =>
        \A n \in tree : \A name \in Names :
            ( /\ startswith(name, DOT)
              /\ Append(Resolve(n.path), name) \in fs.dirs \cup fs.files )
            => ( ( \/ name \in Range(n.files)
                   \/ \E c \in Range(n.children) : Node(c).name = name )
                 <=> ctor.take_hidden )

(* C3.  A directory without child directories, with or without files, gets   *)
(* at most one tar invocation, and exactly one once archive_tree has        *)
(* returned; the output is <current destination>/<name>.tar<ext>, the       *)
(* single member is the directory's name, the working directory is the      *)
(* directory's parent (and, when tar succeeded, a path tar can enter); no   *)
(* directory is made for it in the destination.                             *)
C3_LeafArchivedOnce ==
    InArchiveTree =>
        \A n \in tree :
            IsLeaf(n) =>
                /\ Cardinality(TarsOf(n)) <= 1
                /\ pc = "archived" => Cardinality(TarsOf(n)) = 1
                /\ \A i \in TarsOf(n) :
                      /\ Resolve(TarOut(log[i].args)) = Append(DestOf(n), ArchiveName(n))
                      /\ TarMembers(log[i].args) = <<n.name>>
                      /\ Resolve(TarCwd(log[i].args)) = Parent(Resolve(n.path))
                      /\ log[i].status = 0 => isdir(fs, TarCwd(log[i].args))
                /\ \A i \in Mkdirs :
                      /\ log[i].node # n.path
                      /\ Resolve(log[i].path) # Append(DestOf(n), n.name)

\* a leaf without files, below the root, archived by a tar run that succeeded
C3_Witness ==
    /\ pc = "archived"
    /\ \E n \in tree :
          /\ IsLeaf(n)
          /\ n.files = <<>>
          /\ n.parent # None
          /\ \E i \in TarsOf(n) : log[i].status = 0

(* C4.  Once archive_subtree has run for a directory with child directories, *)
(* <current destination>/<name> is a directory, and no tar invocation made  *)
(* for it writes <current destination>/<name>.tar<ext>.                     *)
C4_NonLeafMirrored ==
    InArchiveTree =>
        \A n \in tree :
            (~IsLeaf(n) /\ Processed(n)) =>
                /\ IsDir(fs, Append(DestOf(n), n.name))
                /\ \A i \in TarsOf(n) :
                      Resolve(TarOut(log[i].args)) # Append(DestOf(n), ArchiveName(n))

(* C5.  A directory with child directories gets no tar invocation when it    *)
(* holds no files and at most one when it does, exactly one once            *)
(* archive_tree has returned; the output is                                 *)
(* <destination>/<name>/<name>.tar<ext>, the working directory is the       *)
(* directory itself, and the members are the node's files in their          *)
(* recorded order, no child directory among them.                           *)
C5_OwnFilesArchivedOnce ==
    InArchiveTree =>
        \A n \in tree :
            ~IsLeaf(n) =>
                /\ Cardinality(TarsOf(n)) <= 1
                /\ n.files = <<>> => TarsOf(n) = {}
                /\ (n.files # <<>> /\ pc = "archived") => Cardinality(TarsOf(n)) = 1
                /\ \A i \in TarsOf(n) :
                      /\ Resolve(TarOut(log[i].args))
                            = DestOf(n) \o <<n.name, ArchiveName(n)>>
                      /\ TarCwd(log[i].args) # EMPTY
                      /\ Resolve(TarCwd(log[i].args)) = Resolve(n.path)
                      /\ TarMembers(log[i].args) = n.files
                      /\ \A c \in Range(n.children) :
                            Node(c).name \notin Range(TarMembers(log[i].args))

\* a directory with child directories and two files, archived; and one
\* without files, passed over
C5_Witness ==
    /\ pc = "archived"
    /\ \E n \in tree :
          /\ ~IsLeaf(n)
          /\ Len(n.files) >= 2
          /\ Cardinality(TarsOf(n)) = 1
    /\ \E n \in tree :
          /\ ~IsLeaf(n)
          /\ n.files = <<>>
          /\ TarsOf(n) = {}

(* C6.  When os.mkdir fails for a directory with child directories,          *)
(* archive_tree ends with an ArchivingProblemError carrying the path        *)
(* <current destination>/<name> and the cause; the failed call is the last  *)
(* entry of the log (no directory is made and no tar is run after it) and   *)
(* no archive_subtree call is pending; what was made before is still there: *)
(* every directory made earlier is a directory, every archive a successful  *)
(* tar run wrote is a file.                                                 *)
C6_MkdirFailureIsFatal ==
    \A i \in Mkdirs :
        log[i].errno # "OK" =>
            /\ i = Len(log)
            /\ pc = "raised"
            /\ astack = <<>>
            /\ err = [type |-> "ArchivingProblemError", path |-> log[i].path,
                      cause |-> log[i].errno]
            /\ ~IsLeaf(Node(log[i].node))
            /\ Resolve(log[i].path)
                  = Append(DestOf(Node(log[i].node)), Node(log[i].node).name)
            /\ \A j \in 1..(i - 1) :
                  /\ log[j].op = "mkdir" => IsDir(fs, Resolve(log[j].path))
                  /\ (log[j].op = "tar" /\ log[j].status = 0)
                        => IsFile(fs, Resolve(TarOut(log[j].args)))

\* os.mkdir is refused for a directory below the root that has siblings still
\* to come, after a directory was made and an archive written
C6_Witness ==
    \E i \in Mkdirs :
        /\ log[i].errno # "OK"
        /\ Node(log[i].node).parent # None
        /\ \E j \in 1..(i - 1) : log[j].op = "mkdir"
        /\ \E j \in 1..(i - 1) : log[j].op = "tar" /\ log[j].status = 0
        /\ \E n \in tree : n.parent # None /\ ~Processed(n) /\ n.path # log[i].node
                              /\ n.parent = Node(log[i].node).parent

(* C7.  With a compression name other than gzip, bzip, xz and none,          *)
(* archive_tree ends with a KeyError raised by the first archive_subtree    *)
(* call: it never returns normally, no tar is run and no directory is made, *)
(* whether the root has child directories or not.                           *)
C7_UnknownCompressionFails ==
    (InArchiveTree /\ call.compression \notin KnownCompression) =>
        /\ log = <<>>
        /\ \A n \in tree : ~Processed(n)
        /\ pc \in {"archiving", "raised"}
        /\ pc = "archiving" => astack = <<[node |-> Root.path, dest |-> call.dest]>>
        /\ pc = "raised" => err = [type |-> "KeyError", key |-> call.compression]

\* the KeyError has been raised for a root with child directories and files,
\* where the destination directory is still to be made
C7_Witness ==
    /\ InArchiveTree
    /\ call.compression \notin KnownCompression
    /\ pc = "raised"
    /\ ~IsLeaf(Root)
    /\ Root.files # <<>>
    /\ ~exists(fs, ospjoin(call.dest, Root.name))
    /\ IsDir(fs, Resolve(call.dest))

\* the digits of a file count
Numeral(n) == <<"0", "1", "2", "3", "4", "5", "6", "7", "8", "9">>[n + 1]

C9_DestinationBeforeContent ==
    (InArchiveTree /\ IsDir(fs, Resolve(call.dest))) =>
        /\ \A i \in Tars : IsDir(fs, Parent(Resolve(TarOut(log[i].args))))
        /\ \A i \in DOMAIN progress :
              Node(progress[i].node).parent # None =>
                  \E j \in 1..(i - 1) :
                      progress[j] = Done(Node(progress[i].node).parent)

(* C10.  Within one run of archive_tree no two tar invocations have the      *)
(* same output path.                                                        *)
C10_DistinctOutputs ==
    \A i \in Tars : \A j \in Tars :
        i # j => TarOut(log[i].args) # TarOut(log[j].args)

=============================================================================
